---- MODULE Spec2Model ----
(***************************************************************************)
(* A model of the directed graph container of gillesdemey/dag.            *)
(*                                                                         *)
(* Two variants of the class live in the source tree:                      *)
(*   - the untyped Graph  (src/unnamed/part_001), the one the test suite   *)
(*     src/unnamed/part_003 exercises;                                     *)
(*   - the generic Graph<T, U> (src/unnamed/part_000).                     *)
(*                                                                         *)
(* A JavaScript Map is modelled as a sequence of entries [k, v] in         *)
(* insertion order, so that iteration order is observable.  A string is a  *)
(* sequence of characters, so that edgeArgsToId is a real concatenation.   *)
(* Every method is an operator from a Graph record to a Graph record; the  *)
(* actions apply one method to the instance g and remember the instance    *)
(* as it was before the call (pre) and the call itself (call).             *)
(***************************************************************************)
EXTENDS Integers, Sequences, FiniteSets, TLC

VARIABLES g, pre, call

vars == <<g, pre, call>>

---------------------------------------------------------------------------
(* Bounds of the model *)

\* number of distinct node keys the callers use
NumKeys == 2

KeyNames == <<"a", "b", "c", "d">>

\* the keys: one-character strings without the delimiter character
Keys == { <<KeyNames[i]>> : i \in 1..NumKeys }

---------------------------------------------------------------------------
(* JavaScript values *)

Undefined == "undefined"
Null == "null"

\* the values callers pass for a node (Undefined: the argument is omitted)
NodeValues == {Undefined, "foo"}

\* the values callers pass for an edge (Undefined: the argument is omitted)
EdgeValues == {Undefined, "bar"}

\* value ?? dflt
NullishCoalesce(value, dflt) == IF value \in {Undefined, Null} THEN dflt ELSE value

\* T | undefined, for a T that is an object
None == [some |-> FALSE]
Some(x) == [some |-> TRUE, val |-> x]

---------------------------------------------------------------------------
(* Map<K, V>: entries in insertion order *)

MapNew == << >>

MapSize(m) == Len(m)

MapHas(m, k) == \E i \in 1..Len(m) : m[i].k = k

MapIndex(m, k) == CHOOSE i \in 1..Len(m) : m[i].k = k

\* m.get(k) for a key the map has
MapAt(m, k) == m[MapIndex(m, k)].v

\* m.get(k) of a map of primitive values: undefined for a missing key
MapGet(m, k) == IF MapHas(m, k) THEN MapAt(m, k) ELSE Undefined

\* m.get(k) of a map of objects
MapGetObj(m, k) == IF MapHas(m, k) THEN Some(MapAt(m, k)) ELSE None

\* m.set(k, x): an existing key keeps its position, a new one goes last
MapSet(m, k, x) ==
  IF MapHas(m, k)
    THEN [m EXCEPT ![MapIndex(m, k)] = [k |-> k, v |-> x]]
    ELSE Append(m, [k |-> k, v |-> x])

\* mutant: the last entry is moved into the place of the deleted one
MapDelete_SwapRemove(m, k) ==
  IF ~MapHas(m, k) THEN m
  ELSE LET i == MapIndex(m, k)
           n == Len(m)
       IN [j \in 1..(n - 1) |-> IF j = i THEN m[n] ELSE m[j]]

MapDelete(m, k) == SelectSeq(m, LAMBDA en : en.k # k)

MapKeys(m) == [i \in 1..Len(m) |-> m[i].k]

MapValues(m) == [i \in 1..Len(m) |-> m[i].v]

\* the elements of a sequence
Range(s) == { s[i] : i \in 1..Len(s) }

---------------------------------------------------------------------------
(* Module-level helpers of the source *)

EDGE_KEY_DELIM == <<"x01">>

\* mutant: both directions of a pair get the same key
edgeArgsToId_NoDirection(v, w) ==
  LET lo == CHOOSE x \in {v, w} : TRUE
      hi == CHOOSE x \in {v, w} : x # lo \/ v = w
  IN lo \o EDGE_KEY_DELIM \o hi \o EDGE_KEY_DELIM

edgeArgsToId(v, w) == v \o EDGE_KEY_DELIM \o w \o EDGE_KEY_DELIM

\* mutant: a new entry starts at two
incrementOrInitEntry_StartsAtTwo(map, k) ==
  LET count == MapGet(map, k)
  IN IF MapHas(map, k) /\ count # 0
       THEN MapSet(map, k, count + 1)
       ELSE MapSet(map, k, 2)

incrementOrInitEntry(map, k) ==
  LET count == MapGet(map, k)
  IN IF MapHas(map, k) /\ count # 0
       THEN MapSet(map, k, count + 1)
       ELSE MapSet(map, k, 1)

\* mutant: the entry is kept when its count reaches zero
decrementOrRemoveEntry_KeepsEntry(map, k) ==
  LET count == IF MapHas(map, k) THEN MapAt(map, k) ELSE 1
      newCount == count - 1
  IN IF newCount = 0 THEN MapSet(map, k, newCount) ELSE map

decrementOrRemoveEntry(map, k) ==
  LET count == IF MapHas(map, k) THEN MapAt(map, k) ELSE 1
      newCount == count - 1
  IN IF newCount = 0 THEN MapDelete(map, k) ELSE map

isEmptyMap(map) == IF ~map.some THEN TRUE ELSE MapSize(map.val) = 0

RECURSIVE Dedup(_)
\* [...new Set(s)]: first occurrences, in order
Dedup(s) ==
  IF s = << >> THEN << >>
  ELSE LET front == Dedup(SubSeq(s, 1, Len(s) - 1))
           last == s[Len(s)]
       IN IF last \in Range(front) THEN front ELSE Append(front, last)

\* mutant: the two lists are joined without removing duplicates
union_NoDedup(a, b) == a \o b

union(a, b) == Dedup(a \o b)

---------------------------------------------------------------------------
(* The untyped Graph: constructor and mutators *)

Graph(options) ==
  [ _label |-> options.label,
    _nodes |-> MapNew,
    _in |-> MapNew,
    _out |-> MapNew,
    _predecessors |-> MapNew,
    _successors |-> MapNew,
    _edges |-> MapNew,
    _edgeLabels |-> MapNew,
    _nodeCount |-> 0,
    _edgeCount |-> 0 ]

\* mutant: an existing node gets its successor counts reset
setNode_ResetsSuccessors(G, v, value) ==
  IF MapHas(G._nodes, v)
    THEN [G EXCEPT !._nodes = MapSet(@, v, NullishCoalesce(value, Null)),
                   !._successors = MapSet(@, v, MapNew)]
    ELSE [G EXCEPT !._nodes = MapSet(@, v, NullishCoalesce(value, Null)),
                   !._in = MapSet(@, v, MapNew),
                   !._predecessors = MapSet(@, v, MapNew),
                   !._out = MapSet(@, v, MapNew),
                   !._successors = MapSet(@, v, MapNew),
                   !._nodeCount = @ + 1]

\* mutant: the test for an existing node is missing
setNode_NoGuard(G, v, value) ==
  [G EXCEPT !._nodes = MapSet(@, v, NullishCoalesce(value, Null)),
            !._in = MapSet(@, v, MapNew),
            !._predecessors = MapSet(@, v, MapNew),
            !._out = MapSet(@, v, MapNew),
            !._successors = MapSet(@, v, MapNew),
            !._nodeCount = @ + 1]

setNode(G, v, value) ==
  IF MapHas(G._nodes, v)
    THEN [G EXCEPT !._nodes = MapSet(@, v, NullishCoalesce(value, Null))]
    ELSE [G EXCEPT !._nodes = MapSet(@, v, NullishCoalesce(value, Null)),
                   !._in = MapSet(@, v, MapNew),
                   !._predecessors = MapSet(@, v, MapNew),
                   !._out = MapSet(@, v, MapNew),
                   !._successors = MapSet(@, v, MapNew),
                   !._nodeCount = @ + 1]

\* mutant: the successor count of the source is left as it is
removeEdge_KeepsSuccessor(G, v, w) ==
  LET e == edgeArgsToId(v, w)
  IN IF ~MapHas(G._edges, e) THEN G
     ELSE
       LET G1 == [G EXCEPT !._edgeLabels = MapDelete(@, e),
                           !._edges = MapDelete(@, e)]
           G2 == IF MapHas(G1._predecessors, w)
                   THEN [G1 EXCEPT !._predecessors =
                           MapSet(@, w, decrementOrRemoveEntry(MapAt(@, w), v))]
                   ELSE G1
           G4 == IF MapHas(G2._in, w)
                   THEN [G2 EXCEPT !._in = MapSet(@, w, MapDelete(MapAt(@, w), e))]
                   ELSE G2
           G5 == IF MapHas(G4._out, w)
                   THEN [G4 EXCEPT !._out = MapSet(@, w, MapDelete(MapAt(@, w), e))]
                   ELSE G4
       IN [G5 EXCEPT !._edgeCount = @ - 1]

\* mutant: the test for a missing edge is gone
removeEdge_NoGuard(G, v, w) ==
  LET e == edgeArgsToId(v, w)
      G1 == [G EXCEPT !._edgeLabels = MapDelete(@, e),
                      !._edges = MapDelete(@, e)]
      G2 == IF MapHas(G1._predecessors, w)
              THEN [G1 EXCEPT !._predecessors =
                      MapSet(@, w, decrementOrRemoveEntry(MapAt(@, w), v))]
              ELSE G1
      G3 == IF MapHas(G2._successors, v)
              THEN [G2 EXCEPT !._successors =
                      MapSet(@, v, decrementOrRemoveEntry(MapAt(@, v), w))]
              ELSE G2
      G4 == IF MapHas(G3._in, w)
              THEN [G3 EXCEPT !._in = MapSet(@, w, MapDelete(MapAt(@, w), e))]
              ELSE G3
      G5 == IF MapHas(G4._out, w)
              THEN [G4 EXCEPT !._out = MapSet(@, w, MapDelete(MapAt(@, w), e))]
              ELSE G4
  IN [G5 EXCEPT !._edgeCount = @ - 1]

removeEdge(G, v, w) ==
  LET e == edgeArgsToId(v, w)
  IN IF ~MapHas(G._edges, e) THEN G
     ELSE
       LET G1 == [G EXCEPT !._edgeLabels = MapDelete(@, e),
                           !._edges = MapDelete(@, e)]
           G2 == IF MapHas(G1._predecessors, w)
                   THEN [G1 EXCEPT !._predecessors =
                           MapSet(@, w, decrementOrRemoveEntry(MapAt(@, w), v))]
                   ELSE G1
           G3 == IF MapHas(G2._successors, v)
                   THEN [G2 EXCEPT !._successors =
                           MapSet(@, v, decrementOrRemoveEntry(MapAt(@, v), w))]
                   ELSE G2
           \* this._in.get(w)?.delete(e)
           G4 == IF MapHas(G3._in, w)
                   THEN [G3 EXCEPT !._in = MapSet(@, w, MapDelete(MapAt(@, w), e))]
                   ELSE G3
           \* this._out.get(w)?.delete(e): the source looks up w, not v
           G5 == IF MapHas(G4._out, w)
                   THEN [G4 EXCEPT !._out = MapSet(@, w, MapDelete(MapAt(@, w), e))]
                   ELSE G4
       IN [G5 EXCEPT !._edgeCount = @ - 1]

\* mutant: the loop leaves after its first turn
removeIncident_FirstOnly(G, field, v, keys, i) ==
  IF i > 1 \/ Len(keys) = 0 THEN G
  ELSE
    LET key == keys[1]
    IN IF MapHas(G._edges, key)
         THEN LET edge == MapAt(G._edges, key)
              IN removeEdge(G, edge.v, edge.w)
         ELSE G

\* for (const key of <field>.get(v)?.keys() ?? []) { const edge =
\* this._edges.get(key); if (edge) this.removeEdge(edge.v, edge.w) }
\* keys is the key list when the loop starts; the iterator of a Map is live,
\* so a key deleted before its turn is not visited.
RECURSIVE removeIncident(_, _, _, _, _)
removeIncident(G, field, v, keys, i) ==
  IF i > Len(keys) THEN G
  ELSE
    LET key == keys[i]
        live == IF field = "_in" THEN G._in ELSE G._out
        visited == MapHas(live, v) /\ MapHas(MapAt(live, v), key)
        G1 == IF visited /\ MapHas(G._edges, key)
                THEN LET edge == MapAt(G._edges, key)
                     IN removeEdge(G, edge.v, edge.w)
                ELSE G
    IN removeIncident(G1, field, v, keys, i + 1)

\* mutant: the node's entry in _in is not deleted
removeNode_KeepsIn(G, v) ==
  IF ~MapHas(G._nodes, v) THEN G
  ELSE
    LET G1 == [G EXCEPT !._nodes = MapDelete(@, v)]
        inKeys == IF MapHas(G1._in, v) THEN MapKeys(MapAt(G1._in, v)) ELSE << >>
        G2 == removeIncident(G1, "_in", v, inKeys, 1)
        G3 == [G2 EXCEPT !._predecessors = MapDelete(@, v)]
        outKeys == IF MapHas(G3._out, v) THEN MapKeys(MapAt(G3._out, v)) ELSE << >>
        G4 == removeIncident(G3, "_out", v, outKeys, 1)
    IN [G4 EXCEPT !._out = MapDelete(@, v),
                  !._successors = MapDelete(@, v),
                  !._nodeCount = @ - 1]

\* mutant: the loop over the outgoing edges is missing
removeNode_InEdgesOnly(G, v) ==
  IF ~MapHas(G._nodes, v) THEN G
  ELSE
    LET G1 == [G EXCEPT !._nodes = MapDelete(@, v)]
        inKeys == IF MapHas(G1._in, v) THEN MapKeys(MapAt(G1._in, v)) ELSE << >>
        G2 == removeIncident(G1, "_in", v, inKeys, 1)
        G3 == [G2 EXCEPT !._in = MapDelete(@, v),
                         !._predecessors = MapDelete(@, v)]
    IN [G3 EXCEPT !._out = MapDelete(@, v),
                  !._successors = MapDelete(@, v),
                  !._nodeCount = @ - 1]

removeNode(G, v) ==
  IF ~MapHas(G._nodes, v) THEN G
  ELSE
    LET G1 == [G EXCEPT !._nodes = MapDelete(@, v)]
        inKeys == IF MapHas(G1._in, v) THEN MapKeys(MapAt(G1._in, v)) ELSE << >>
        G2 == removeIncident(G1, "_in", v, inKeys, 1)
        G3 == [G2 EXCEPT !._in = MapDelete(@, v),
                         !._predecessors = MapDelete(@, v)]
        outKeys == IF MapHas(G3._out, v) THEN MapKeys(MapAt(G3._out, v)) ELSE << >>
        G4 == removeIncident(G3, "_out", v, outKeys, 1)
    IN [G4 EXCEPT !._out = MapDelete(@, v),
                  !._successors = MapDelete(@, v),
                  !._nodeCount = @ - 1]

\* mutant: the early return for an edge that is already present is missing
setEdge_NoEarlyReturn(G, v, w, value) ==
  LET e == edgeArgsToId(v, w)
      G1 == setNode(G, v, Undefined)
      G2 == setNode(G1, w, Undefined)
      edgeObj == [v |-> v, w |-> w]
      G3 == [G2 EXCEPT !._edgeLabels = MapSet(@, e, NullishCoalesce(value, Null)),
                       !._edges = MapSet(@, e, [v |-> v, w |-> w])]
      G4 == IF MapHas(G3._predecessors, w)
              THEN [G3 EXCEPT !._predecessors =
                      MapSet(@, w, incrementOrInitEntry(MapAt(@, w), v))]
              ELSE G3
      G5 == IF MapHas(G4._successors, v)
              THEN [G4 EXCEPT !._successors =
                      MapSet(@, v, incrementOrInitEntry(MapAt(@, v), w))]
              ELSE G4
      G6 == IF MapHas(G5._in, w)
              THEN [G5 EXCEPT !._in = MapSet(@, w, MapSet(MapAt(@, w), e, edgeObj))]
              ELSE G5
      G7 == IF MapHas(G6._out, v)
              THEN [G6 EXCEPT !._out = MapSet(@, v, MapSet(MapAt(@, v), e, edgeObj))]
              ELSE G6
  IN [G7 EXCEPT !._edgeCount = @ + 1]

\* mutant: only the first endpoint is created
setEdge_OneEndpoint(G, v, w, value) ==
  LET e == edgeArgsToId(v, w)
  IN IF MapHas(G._edgeLabels, e)
       THEN [G EXCEPT !._edgeLabels = MapSet(@, e, NullishCoalesce(value, Null))]
       ELSE
         LET G2 == setNode(G, v, Undefined)
             edgeObj == [v |-> v, w |-> w]
             G3 == [G2 EXCEPT !._edgeLabels = MapSet(@, e, NullishCoalesce(value, Null)),
                              !._edges = MapSet(@, e, [v |-> v, w |-> w])]
             G4 == IF MapHas(G3._predecessors, w)
                     THEN [G3 EXCEPT !._predecessors =
                             MapSet(@, w, incrementOrInitEntry(MapAt(@, w), v))]
                     ELSE G3
             G5 == IF MapHas(G4._successors, v)
                     THEN [G4 EXCEPT !._successors =
                             MapSet(@, v, incrementOrInitEntry(MapAt(@, v), w))]
                     ELSE G4
             G6 == IF MapHas(G5._in, w)
                     THEN [G5 EXCEPT !._in = MapSet(@, w, MapSet(MapAt(@, w), e, edgeObj))]
                     ELSE G5
             G7 == IF MapHas(G6._out, v)
                     THEN [G6 EXCEPT !._out = MapSet(@, v, MapSet(MapAt(@, v), e, edgeObj))]
                     ELSE G6
         IN [G7 EXCEPT !._edgeCount = @ + 1]

setEdge(G, v, w, value) ==
  LET e == edgeArgsToId(v, w)
  IN IF MapHas(G._edgeLabels, e)
       THEN [G EXCEPT !._edgeLabels = MapSet(@, e, NullishCoalesce(value, Null))]
       ELSE
         LET G1 == setNode(G, v, Undefined)
             G2 == setNode(G1, w, Undefined)
             edgeObj == [v |-> v, w |-> w]
             G3 == [G2 EXCEPT !._edgeLabels = MapSet(@, e, NullishCoalesce(value, Null)),
                              !._edges = MapSet(@, e, [v |-> v, w |-> w])]
             G4 == IF MapHas(G3._predecessors, w)
                     THEN [G3 EXCEPT !._predecessors =
                             MapSet(@, w, incrementOrInitEntry(MapAt(@, w), v))]
                     ELSE G3
             G5 == IF MapHas(G4._successors, v)
                     THEN [G4 EXCEPT !._successors =
                             MapSet(@, v, incrementOrInitEntry(MapAt(@, v), w))]
                     ELSE G4
             G6 == IF MapHas(G5._in, w)
                     THEN [G5 EXCEPT !._in = MapSet(@, w, MapSet(MapAt(@, w), e, edgeObj))]
                     ELSE G5
             G7 == IF MapHas(G6._out, v)
                     THEN [G6 EXCEPT !._out = MapSet(@, v, MapSet(MapAt(@, v), e, edgeObj))]
                     ELSE G6
         IN [G7 EXCEPT !._edgeCount = @ + 1]

---------------------------------------------------------------------------
(* The untyped Graph: queries *)

label(G) == G._label

nodeCount(G) == G._nodeCount

edgeCount(G) == G._edgeCount

node(G, v) == MapGet(G._nodes, v)

hasNode(G, v) == MapHas(G._nodes, v)

nodes(G) == MapKeys(G._nodes)

edges(G) == MapValues(G._edges)

edge(G, v, w) == MapGet(G._edgeLabels, edgeArgsToId(v, w))

hasEdge(G, v, w) == MapHas(G._edgeLabels, edgeArgsToId(v, w))

\* mutant: the filter looks at this._out, as sinks() does
sources_UsesOut(G) ==
  SelectSeq(nodes(G), LAMBDA n : isEmptyMap(MapGetObj(G._out, n)))

sources(G) ==
  SelectSeq(nodes(G), LAMBDA n : isEmptyMap(MapGetObj(G._in, n)))

sinks(G) ==
  SelectSeq(nodes(G), LAMBDA n : isEmptyMap(MapGetObj(G._out, n)))

predecessors(G, v) ==
  IF MapHas(G._predecessors, v)
    THEN Some(MapKeys(MapAt(G._predecessors, v)))
    ELSE None

successors(G, v) ==
  IF MapHas(G._successors, v)
    THEN Some(MapKeys(MapAt(G._successors, v)))
    ELSE None

\* mutant: the successors are left out of the result
neighbors_OmitsSuccessors(G, v) ==
  LET preds == predecessors(G, v)
  IN IF preds.some THEN Some(union(preds.val, << >>)) ELSE None

neighbors(G, v) ==
  LET preds == predecessors(G, v)
  IN IF preds.some
       THEN LET succs == successors(G, v)
            IN Some(union(preds.val, IF succs.some THEN succs.val ELSE << >>))
       ELSE None

\* mutant: the predecessors are looked at in place of the successors
isLeaf_UsesPredecessors(G, v) ==
  LET neigbours == predecessors(G, v)
  IN neigbours.some /\ Len(neigbours.val) = 0

isLeaf(G, v) ==
  LET neigbours == successors(G, v)
  IN neigbours.some /\ Len(neigbours.val) = 0

\* mutant: the filter compares the edge's target, as outEdges does
inEdges_FilterOnTarget(G, v, w) ==
  IF ~MapHas(G._in, v) THEN None
  ELSE Some(SelectSeq(MapValues(MapAt(G._in, v)),
                      LAMBDA ed : IF w.some THEN ed.w = w.val ELSE TRUE))

\* w is None when the optional argument is omitted
inEdges(G, v, w) ==
  IF ~MapHas(G._in, v) THEN None
  ELSE Some(SelectSeq(MapValues(MapAt(G._in, v)),
                      LAMBDA ed : IF w.some THEN ed.v = w.val ELSE TRUE))

outEdges(G, v, w) ==
  IF ~MapHas(G._out, v) THEN None
  ELSE Some(SelectSeq(MapValues(MapAt(G._out, v)),
                      LAMBDA ed : IF w.some THEN ed.w = w.val ELSE TRUE))

nodeEdges(G, v, w) ==
  LET ins == inEdges(G, v, w)
  IN IF ~ins.some THEN None
     ELSE LET outs == outEdges(G, v, w)
          IN Some(ins.val \o (IF outs.some THEN outs.val ELSE << >>))

---------------------------------------------------------------------------
(* The callers of the untyped Graph *)

Init ==
  /\ g = Graph([label |-> Undefined])
  /\ pre = Graph([label |-> Undefined])
  /\ call = [op |-> "new"]

SetNode(v, value) ==
  /\ g' = setNode(g, v, value)
  /\ pre' = g
  /\ call' = [op |-> "setNode", v |-> v, value |-> value]

RemoveNode(v) ==
  /\ g' = removeNode(g, v)
  /\ pre' = g
  /\ call' = [op |-> "removeNode", v |-> v]

SetEdge(v, w, value) ==
  /\ g' = setEdge(g, v, w, value)
  /\ pre' = g
  /\ call' = [op |-> "setEdge", v |-> v, w |-> w, value |-> value]

RemoveEdge(v, w) ==
  /\ g' = removeEdge(g, v, w)
  /\ pre' = g
  /\ call' = [op |-> "removeEdge", v |-> v, w |-> w]

Next ==
  \/ \E v \in Keys, value \in NodeValues : SetNode(v, value)
  \/ \E v \in Keys : RemoveNode(v)
  \/ \E v \in Keys, w \in Keys, value \in EdgeValues : SetEdge(v, w, value)
  \/ \E v \in Keys, w \in Keys : RemoveEdge(v, w)

Spec == Init /\ [][Next]_vars

\* The same calls without the caller's record of the last one, for claims
\* that speak about the instance alone
CallSetNode(v, value) ==
  /\ g' = setNode(g, v, value)
  /\ UNCHANGED <<pre, call>>

CallRemoveNode(v) ==
  /\ g' = removeNode(g, v)
  /\ UNCHANGED <<pre, call>>

CallSetEdge(v, w, value) ==
  /\ g' = setEdge(g, v, w, value)
  /\ UNCHANGED <<pre, call>>

CallRemoveEdge(v, w) ==
  /\ g' = removeEdge(g, v, w)
  /\ UNCHANGED <<pre, call>>

NextCalls ==
  \/ \E v \in Keys, value \in NodeValues : CallSetNode(v, value)
  \/ \E v \in Keys : CallRemoveNode(v)
  \/ \E v \in Keys, w \in Keys, value \in EdgeValues : CallSetEdge(v, w, value)
  \/ \E v \in Keys, w \in Keys : CallRemoveEdge(v, w)

SpecCalls == Init /\ [][NextCalls]_vars

---------------------------------------------------------------------------
(* removeNode statement by statement.  call.pc is the place inside the     *)
(* running removeNode ("in": the loop over _in.get(v), "out": the loop     *)
(* over _out.get(v)) or "done" when no call is running; call.keys is the   *)
(* key list of the loop's iterator when the loop began and call.i its      *)
(* turn.  The other methods have no statement between which the tables     *)
(* could be looked at from removeNode's loops, and run as one step.        *)

Returned(op, v) == [op |-> op, v |-> v, pc |-> "done", keys |-> << >>, i |-> 0]

InitSteps ==
  /\ g = Graph([label |-> Undefined])
  /\ pre = Graph([label |-> Undefined])
  /\ call = Returned("new", << >>)

StepSetNode(v, value) ==
  /\ call.pc = "done"
  /\ g' = setNode(g, v, value)
  /\ pre' = g
  /\ call' = Returned("setNode", v)

StepSetEdge(v, w, value) ==
  /\ call.pc = "done"
  /\ g' = setEdge(g, v, w, value)
  /\ pre' = g
  /\ call' = Returned("setEdge", v)

StepRemoveEdge(v, w) ==
  /\ call.pc = "done"
  /\ g' = removeEdge(g, v, w)
  /\ pre' = g
  /\ call' = Returned("removeEdge", v)

\* if (!this._nodes.has(v)) return this
RemoveNodeReturnsEarly(v) ==
  /\ call.pc = "done"
  /\ ~MapHas(g._nodes, v)
  /\ g' = g
  /\ pre' = g
  /\ call' = Returned("removeNode", v)

\* this._nodes.delete(v), and the iterator of the first loop is made
RemoveNodeDeletesNode(v) ==
  /\ call.pc = "done"
  /\ MapHas(g._nodes, v)
  /\ g' = [g EXCEPT !._nodes = MapDelete(@, v)]
  /\ pre' = g
  /\ call' = [op |-> "removeNode", v |-> v, pc |-> "in",
              keys |-> IF MapHas(g._in, v) THEN MapKeys(MapAt(g._in, v)) ELSE << >>,
              i |-> 1]

\* one turn of a loop: const edge = this._edges.get(key);
\* if (edge) this.removeEdge(edge.v, edge.w)
RemoveNodeLoopTurn ==
  /\ call.pc \in {"in", "out"}
  /\ call.i <= Len(call.keys)
  /\ LET key == call.keys[call.i]
         live == IF call.pc = "in" THEN g._in ELSE g._out
         visited == MapHas(live, call.v) /\ MapHas(MapAt(live, call.v), key)
     IN g' = IF visited /\ MapHas(g._edges, key)
               THEN removeEdge(g, MapAt(g._edges, key).v, MapAt(g._edges, key).w)
               ELSE g
  /\ call' = [call EXCEPT !.i = @ + 1]
  /\ UNCHANGED pre

\* this._in.delete(v); this._predecessors.delete(v), and the iterator of the
\* second loop is made
RemoveNodeDeletesIn ==
  /\ call.pc = "in"
  /\ call.i > Len(call.keys)
  /\ g' = [g EXCEPT !._in = MapDelete(@, call.v),
                    !._predecessors = MapDelete(@, call.v)]
  /\ call' = [call EXCEPT !.pc = "out",
                          !.keys = IF MapHas(g._out, call.v)
                                     THEN MapKeys(MapAt(g._out, call.v))
                                     ELSE << >>,
                          !.i = 1]
  /\ UNCHANGED pre

\* this._out.delete(v); this._successors.delete(v); --this._nodeCount
RemoveNodeDeletesOut ==
  /\ call.pc = "out"
  /\ call.i > Len(call.keys)
  /\ g' = [g EXCEPT !._out = MapDelete(@, call.v),
                    !._successors = MapDelete(@, call.v),
                    !._nodeCount = @ - 1]
  /\ call' = Returned("removeNode", call.v)
  /\ UNCHANGED pre

NextSteps ==
  \/ \E v \in Keys, value \in NodeValues : StepSetNode(v, value)
  \/ \E v \in Keys, w \in Keys, value \in EdgeValues : StepSetEdge(v, w, value)
  \/ \E v \in Keys, w \in Keys : StepRemoveEdge(v, w)
  \/ \E v \in Keys : RemoveNodeReturnsEarly(v)
  \/ \E v \in Keys : RemoveNodeDeletesNode(v)
  \/ RemoveNodeLoopTurn
  \/ RemoveNodeDeletesIn
  \/ RemoveNodeDeletesOut

SpecSteps == InitSteps /\ [][NextSteps]_vars

---------------------------------------------------------------------------
(* The same calls with keys that contain the delimiter: "a" and "a\x01a" *)

DelimKeys == { <<"a">>, <<"a", "x01", "a">> }

\* With such keys two pairs share an id and the counts of the predecessor
\* and successor maps can grow without end; the calls are followed while no
\* count is above MaxCount.
MaxCount == 2

CountsWithin(G) ==
  \A field \in {G._predecessors, G._successors} :
    \A i \in 1..Len(field) :
      \A j \in 1..Len(field[i].v) : field[i].v[j].v <= MaxCount

\* the only call that raises a count
DelimSetEdge(v, w, value) ==
  /\ SetEdge(v, w, value)
  /\ CountsWithin(g')

NextDelim ==
  \/ \E v \in DelimKeys : SetNode(v, Undefined)
  \/ \E v \in DelimKeys : RemoveNode(v)
  \/ \E v \in DelimKeys, w \in DelimKeys, value \in EdgeValues : DelimSetEdge(v, w, value)
  \/ \E v \in DelimKeys, w \in DelimKeys : RemoveEdge(v, w)

SpecDelim == Init /\ [][NextDelim]_vars

---------------------------------------------------------------------------
(* The generic Graph<T, U> of src/unnamed/part_000.  It differs from the   *)
(* untyped Graph in setNode and setEdge (the value is stored as given, a   *)
(* missing endpoint makes setEdge throw), in nodes() (the Map itself) and  *)
(* in sources() and sinks() (Maps, both filtered on this._out).            *)

T_setNode(G, v, value) ==
  IF MapHas(G._nodes, v)
    THEN [G EXCEPT !._nodes = MapSet(@, v, value)]
    ELSE [G EXCEPT !._nodes = MapSet(@, v, value),
                   !._in = MapSet(@, v, MapNew),
                   !._predecessors = MapSet(@, v, MapNew),
                   !._out = MapSet(@, v, MapNew),
                   !._successors = MapSet(@, v, MapNew),
                   !._nodeCount = @ + 1]

\* the same statements as in the untyped Graph
T_removeEdge(G, v, w) == removeEdge(G, v, w)

\* the same statements as in the untyped Graph
T_removeNode(G, v) == removeNode(G, v)

\* mutant: the edge value is written before the endpoints are tested
T_setEdge_WritesFirst(G, v, w, value) ==
  LET e == edgeArgsToId(v, w)
      G1 == [G EXCEPT !._edgeLabels = MapSet(@, e, value),
                      !._edgeCount = IF MapHas(G._edgeLabels, e) THEN @ ELSE @ + 1]
  IN IF MapHas(G._edgeLabels, e) THEN [graph |-> G1, threw |-> FALSE]
     ELSE IF ~MapHas(G._nodes, v) \/ ~MapHas(G._nodes, w)
       THEN [graph |-> G1, threw |-> TRUE]
     ELSE [graph |-> setEdge(G, v, w, value), threw |-> FALSE]

\* the result is the instance after the call and whether the call threw
T_setEdge(G, v, w, value) ==
  LET e == edgeArgsToId(v, w)
  IN IF MapHas(G._edgeLabels, e)
       THEN [graph |-> [G EXCEPT !._edgeLabels = MapSet(@, e, value)], threw |-> FALSE]
     ELSE IF ~MapHas(G._nodes, v) THEN [graph |-> G, threw |-> TRUE]
     ELSE IF ~MapHas(G._nodes, w) THEN [graph |-> G, threw |-> TRUE]
     ELSE
       LET edgeObj == [v |-> v, w |-> w]
           G3 == [G EXCEPT !._edgeLabels = MapSet(@, e, value),
                           !._edges = MapSet(@, e, [v |-> v, w |-> w])]
           G4 == IF MapHas(G3._predecessors, w)
                   THEN [G3 EXCEPT !._predecessors =
                           MapSet(@, w, incrementOrInitEntry(MapAt(@, w), v))]
                   ELSE G3
           G5 == IF MapHas(G4._successors, v)
                   THEN [G4 EXCEPT !._successors =
                           MapSet(@, v, incrementOrInitEntry(MapAt(@, v), w))]
                   ELSE G4
           G6 == IF MapHas(G5._in, w)
                   THEN [G5 EXCEPT !._in = MapSet(@, w, MapSet(MapAt(@, w), e, edgeObj))]
                   ELSE G5
           G7 == IF MapHas(G6._out, v)
                   THEN [G6 EXCEPT !._out = MapSet(@, v, MapSet(MapAt(@, v), e, edgeObj))]
                   ELSE G6
       IN [graph |-> [G7 EXCEPT !._edgeCount = @ + 1], threw |-> FALSE]

\* return this._nodes.get(v)
T_node(G, v) == MapGet(G._nodes, v)

T_nodes(G) == G._nodes

\* new Map(Array.from(this.nodes()).filter(([id]) => isEmptyMap(this._out.get(id))))
T_sources(G) ==
  SelectSeq(T_nodes(G), LAMBDA en : isEmptyMap(MapGetObj(G._out, en.k)))

T_sinks(G) ==
  SelectSeq(T_nodes(G), LAMBDA en : isEmptyMap(MapGetObj(G._out, en.k)))

---------------------------------------------------------------------------
(* The callers of the generic Graph *)

InitGeneric ==
  /\ g = Graph([label |-> Undefined])
  /\ pre = Graph([label |-> Undefined])
  /\ call = [op |-> "new"]

T_SetNode(v, value) ==
  /\ g' = T_setNode(g, v, value)
  /\ pre' = g
  /\ call' = [op |-> "setNode", v |-> v, value |-> value]

T_RemoveNode(v) ==
  /\ g' = T_removeNode(g, v)
  /\ pre' = g
  /\ call' = [op |-> "removeNode", v |-> v]

T_SetEdge(v, w, value) ==
  LET r == T_setEdge(g, v, w, value)
  IN /\ g' = r.graph
     /\ pre' = g
     /\ call' = [op |-> "setEdge", v |-> v, w |-> w, value |-> value,
                 threw |-> r.threw]

T_RemoveEdge(v, w) ==
  /\ g' = T_removeEdge(g, v, w)
  /\ pre' = g
  /\ call' = [op |-> "removeEdge", v |-> v, w |-> w]

NextGeneric ==
  \/ \E v \in Keys, value \in NodeValues : T_SetNode(v, value)
  \/ \E v \in Keys : T_RemoveNode(v)
  \/ \E v \in Keys, w \in Keys, value \in EdgeValues : T_SetEdge(v, w, value)
  \/ \E v \in Keys, w \in Keys : T_RemoveEdge(v, w)

SpecGeneric == InitGeneric /\ [][NextGeneric]_vars

---------------------------------------------------------------------------
(* What the claims speak about *)

\* the edges out of k, the edges into k, by hasEdge
OutPairs(G, k) == { [v |-> k, w |-> w] : w \in { x \in Keys : hasEdge(G, k, x) } }

InPairs(G, k) == { [v |-> u, w |-> k] : u \in { x \in Keys : hasEdge(G, x, k) } }

\* the edges that touch k, by hasEdge
IncidentPairs(G, k) ==
  { p \in Keys \X Keys : hasEdge(G, p[1], p[2]) /\ (p[1] = k \/ p[2] = k) }

\* a list that holds exactly the elements of S, each once
ListsExactly(list, S) == Range(list) = S /\ Len(list) = Cardinality(S)

---------------------------------------------------------------------------
(* Claims about the untyped Graph, checked under Spec *)

\* C1: after any sequence of setNode, removeNode, setEdge and removeEdge
\* calls, nodeCount() is the number of keys k with hasNode(k) and edgeCount()
\* is the number of ordered pairs (v, w) with hasEdge(v, w).
C1_CountsMatch ==
  /\ nodeCount(g) = Cardinality({ k \in Keys : hasNode(g, k) })
  /\ edgeCount(g) = Cardinality({ p \in Keys \X Keys : hasEdge(g, p[1], p[2]) })

\* a removeNode that took a node and at least two edges away and left a
\* node and an edge behind
C1_Witness ==
  /\ call.op = "removeNode"
  /\ hasNode(pre, call.v)
  /\ edgeCount(pre) - edgeCount(g) >= 2
  /\ nodeCount(g) = 1
  /\ edgeCount(g) = 1

\* C2: for every present node k, outEdges(k) returns exactly the edges (k, w)
\* with hasEdge(k, w): never a removed edge, never an edge to a removed node.
C2_OutEdgesExact ==
  \A k \in Keys :
    hasNode(g, k) =>
      /\ outEdges(g, k, None).some
      /\ ListsExactly(outEdges(g, k, None).val, OutPairs(g, k))

\* C3: sinks() returns exactly the present nodes without an outgoing edge.
C3_SinksExact ==
  ListsExactly(sinks(g),
               { k \in Keys : hasNode(g, k) /\ \A w \in Keys : ~hasEdge(g, k, w) })

\* C4: setEdge(v, w) leaves the value of an endpoint that was already a
\* present node as it was.
C4_EndpointValueKept ==
  call.op = "setEdge" =>
    \A k \in {call.v, call.w} :
      hasNode(pre, k) => node(g, k) = node(pre, k)

\* C5: after removeNode(v) of a present node v, hasNode(v) is false, no
\* remaining node lists v in its predecessors or successors, edges() holds no
\* edge with v as an endpoint, and edgeCount() has dropped by the number of
\* edges that were incident to v (a self-loop counted once).
C5_RemoveNodeCascades ==
  (call.op = "removeNode" /\ hasNode(pre, call.v)) =>
    /\ ~hasNode(g, call.v)
    /\ \A k \in Keys :
         hasNode(g, k) =>
           /\ call.v \notin Range(predecessors(g, k).val)
           /\ call.v \notin Range(successors(g, k).val)
    /\ \A i \in 1..Len(edges(g)) :
         edges(g)[i].v # call.v /\ edges(g)[i].w # call.v
    /\ edgeCount(g) = edgeCount(pre) - Cardinality(IncidentPairs(pre, call.v))

\* the removed node had a self-loop, an edge to and an edge from another node
C5_Witness ==
  /\ call.op = "removeNode"
  /\ hasNode(pre, call.v)
  /\ hasEdge(pre, call.v, call.v)
  /\ \E u \in Keys \ {call.v} :
       hasEdge(pre, u, call.v) /\ hasEdge(pre, call.v, u) /\ hasNode(g, u)
  /\ Cardinality(IncidentPairs(pre, call.v)) = 3

\* C7: sources() returns exactly the present nodes without an incoming edge,
\* in the order of nodes().
C7_SourcesExact ==
  sources(g) =
    SelectSeq(nodes(g), LAMBDA k : \A u \in Keys : ~hasEdge(g, u, k))

\* removing the only edge into a node that still has an edge out of it
\* makes that node a source
C7_Witness ==
  /\ call.op = "removeEdge"
  /\ hasEdge(pre, call.v, call.w)
  /\ call.w \notin Range(sources(pre))
  /\ call.w \in Range(sources(g))
  /\ \E x \in Keys : hasEdge(g, call.w, x)
  /\ Len(sources(g)) < Len(nodes(g))

\* C8: for every present node v and all keys w and u, successors(v) contains
\* w iff hasEdge(v, w), and predecessors(v) contains u iff hasEdge(u, v).
C8_AdjacencyMatchesEdges ==
  \A v \in Keys :
    hasNode(g, v) =>
      /\ successors(g, v).some
      /\ predecessors(g, v).some
      /\ \A w \in Keys : (w \in Range(successors(g, v).val)) <=> hasEdge(g, v, w)
      /\ \A u \in Keys : (u \in Range(predecessors(g, v).val)) <=> hasEdge(g, u, v)

\* an edge was removed from a node that keeps another successor, and its
\* target keeps another predecessor
C8_Witness ==
  /\ call.op = "removeEdge"
  /\ hasEdge(pre, call.v, call.w)
  /\ ~hasEdge(g, call.v, call.w)
  /\ Len(successors(g, call.v).val) = 1
  /\ Len(predecessors(g, call.w).val) = 1

\* C9: for every present node k, inEdges(k) returns exactly the edges (u, k)
\* with hasEdge(u, k), and inEdges(k, from) exactly those whose source is from.
C9_InEdgesExact ==
  \A k \in Keys :
    hasNode(g, k) =>
      /\ inEdges(g, k, None).some
      /\ ListsExactly(inEdges(g, k, None).val, InPairs(g, k))
      /\ \A from \in Keys :
           /\ inEdges(g, k, Some(from)).some
           /\ ListsExactly(inEdges(g, k, Some(from)).val,
                           { p \in InPairs(g, k) : p.v = from })

\* a node with two incoming edges, of which inEdges(k, from) selects one,
\* after an edge into it was removed and set again
C9_Witness ==
  /\ call.op = "setEdge"
  /\ ~hasEdge(pre, call.v, call.w)
  /\ call.v # call.w
  /\ Len(inEdges(g, call.w, None).val) = 2
  /\ Len(inEdges(g, call.w, Some(call.v)).val) = 1
  /\ hasNode(pre, call.v)
  /\ MapHas(MapAt(pre._out, call.v), edgeArgsToId(call.v, call.w))

\* C10: after setEdge(v, w), from any reachable state, hasNode(v), hasNode(w)
\* and hasEdge(v, w) are true and nodeCount() has grown by the number of
\* distinct endpoints that were not present before.
C10_SetEdgeCreatesEndpoints ==
  call.op = "setEdge" =>
    /\ hasNode(g, call.v)
    /\ hasNode(g, call.w)
    /\ hasEdge(g, call.v, call.w)
    /\ nodeCount(g) =
         nodeCount(pre) + Cardinality({ k \in {call.v, call.w} : ~hasNode(pre, k) })

\* setEdge between two distinct keys of which one was a node and one was not
C10_Witness ==
  /\ call.op = "setEdge"
  /\ call.v # call.w
  /\ hasNode(pre, call.v)
  /\ ~hasNode(pre, call.w)
  /\ nodeCount(g) = nodeCount(pre) + 1

\* C12: setEdge(v, w, val) on an ordered pair that already has an edge
\* changes only that edge's value: edge(v, w) is val afterwards (null when
\* the value is left out), and edgeCount(), nodeCount(), edges(), every
\* node value and every predecessors, successors, inEdges and outEdges
\* result are as before.
C12_ExistingEdgeOnlyValueChanges ==
  (call.op = "setEdge" /\ hasEdge(pre, call.v, call.w)) =>
    /\ edge(g, call.v, call.w) = NullishCoalesce(call.value, Null)
    /\ edgeCount(g) = edgeCount(pre)
    /\ nodeCount(g) = nodeCount(pre)
    /\ edges(g) = edges(pre)
    /\ nodes(g) = nodes(pre)
    /\ \A k \in Keys :
         /\ node(g, k) = node(pre, k)
         /\ predecessors(g, k) = predecessors(pre, k)
         /\ successors(g, k) = successors(pre, k)
         /\ inEdges(g, k, None) = inEdges(pre, k, None)
         /\ outEdges(g, k, None) = outEdges(pre, k, None)
         /\ \A n \in Keys :
              /\ inEdges(g, k, Some(n)) = inEdges(pre, k, Some(n))
              /\ outEdges(g, k, Some(n)) = outEdges(pre, k, Some(n))

\* a repeated setEdge that changed the value of an edge between two nodes,
\* one of which carries a value, in a graph with a second edge
C12_Witness ==
  /\ call.op = "setEdge"
  /\ hasEdge(pre, call.v, call.w)
  /\ call.value = "bar"
  /\ edge(pre, call.v, call.w) = Null
  /\ edge(g, call.v, call.w) = "bar"
  /\ \E k \in {call.v, call.w} : node(pre, k) = "foo"
  /\ edgeCount(pre) >= 2
  /\ edgeCount(g) = edgeCount(pre)

\* C13: setNode is an idempotent upsert: after setNode(k, v), node(k) is v
\* (null when the value is left out); a second identical call gives the same
\* state; and on a key that is already present only that node's value
\* changes, while nodeCount(), the node list, the node's predecessors,
\* successors, inEdges and outEdges, the other nodes' values and all edges
\* with their values stay as they were.
C13_SetNodeIdempotentUpsert ==
  call.op = "setNode" =>
    /\ node(g, call.v) = NullishCoalesce(call.value, Null)
    /\ setNode(g, call.v, call.value) = g
    /\ hasNode(pre, call.v) =>
         /\ nodeCount(g) = nodeCount(pre)
         /\ nodes(g) = nodes(pre)
         /\ predecessors(g, call.v) = predecessors(pre, call.v)
         /\ successors(g, call.v) = successors(pre, call.v)
         /\ inEdges(g, call.v, None) = inEdges(pre, call.v, None)
         /\ outEdges(g, call.v, None) = outEdges(pre, call.v, None)
         /\ edges(g) = edges(pre)
         /\ edgeCount(g) = edgeCount(pre)
         /\ \A k \in Keys \ {call.v} : node(g, k) = node(pre, k)
         /\ \A a \in Keys, b \in Keys : edge(g, a, b) = edge(pre, a, b)

\* a setNode that gave a new value to a present node with an incoming and
\* an outgoing edge
C13_Witness ==
  /\ call.op = "setNode"
  /\ hasNode(pre, call.v)
  /\ call.value = "foo"
  /\ node(pre, call.v) = Null
  /\ node(g, call.v) = "foo"
  /\ \E k \in Keys : hasEdge(pre, k, call.v)
  /\ \E k \in Keys : hasEdge(pre, call.v, k)
  /\ successors(g, call.v) = successors(pre, call.v)
  /\ successors(g, call.v).some
  /\ Len(successors(g, call.v).val) >= 1

\* C14: where nodes a and b are present and edge (a, b) is not,
\* setEdge(a, b) followed by removeEdge(a, b) restores successors(a),
\* predecessors(b), neighbors(a), neighbors(b), hasEdge(a, b) and
\* edgeCount() to what they were before the setEdge.
C14_SetThenRemoveEdgeRestores ==
  ( /\ call.op = "setEdge"
    /\ hasNode(pre, call.v)
    /\ hasNode(pre, call.w)
    /\ ~hasEdge(pre, call.v, call.w) )
  => LET h == removeEdge(g, call.v, call.w)
     IN /\ successors(h, call.v) = successors(pre, call.v)
        /\ predecessors(h, call.w) = predecessors(pre, call.w)
        /\ neighbors(h, call.v) = neighbors(pre, call.v)
        /\ neighbors(h, call.w) = neighbors(pre, call.w)
        /\ hasEdge(h, call.v, call.w) = hasEdge(pre, call.v, call.w)
        /\ edgeCount(h) = edgeCount(pre)

\* a setEdge between two distinct present nodes that had no such edge, where
\* the source already had a successor, and whose removal gives the earlier
\* successors back
C14_Witness ==
  /\ call.op = "setEdge"
  /\ call.v # call.w
  /\ hasNode(pre, call.v)
  /\ hasNode(pre, call.w)
  /\ ~hasEdge(pre, call.v, call.w)
  /\ hasEdge(g, call.v, call.w)
  /\ Len(successors(pre, call.v).val) >= 1
  /\ Len(successors(g, call.v).val) = Len(successors(pre, call.v).val) + 1
  /\ successors(removeEdge(g, call.v, call.w), call.v) = successors(pre, call.v)
  /\ ~hasEdge(removeEdge(g, call.v, call.w), call.v, call.w)

\* C15: for every key k, each of predecessors(k), successors(k),
\* neighbors(k), inEdges(k), outEdges(k) and nodeEdges(k) returns undefined
\* exactly when hasNode(k) is false, and a list otherwise.
C15_AbsentResultIffNoNode ==
  \A k \in Keys :
    /\ predecessors(g, k).some <=> hasNode(g, k)
    /\ successors(g, k).some <=> hasNode(g, k)
    /\ neighbors(g, k).some <=> hasNode(g, k)
    /\ inEdges(g, k, None).some <=> hasNode(g, k)
    /\ outEdges(g, k, None).some <=> hasNode(g, k)
    /\ nodeEdges(g, k, None).some <=> hasNode(g, k)
    /\ \A n \in Keys :
         /\ inEdges(g, k, Some(n)).some <=> hasNode(g, k)
         /\ outEdges(g, k, Some(n)).some <=> hasNode(g, k)
         /\ nodeEdges(g, k, Some(n)).some <=> hasNode(g, k)

\* removeNode has removed a node that had edges, all six queries return
\* undefined for it, and another node is still present with a list for each
C15_Witness ==
  /\ call.op = "removeNode"
  /\ hasNode(pre, call.v)
  /\ Len(nodeEdges(pre, call.v, None).val) >= 2
  /\ ~hasNode(g, call.v)
  /\ ~predecessors(g, call.v).some
  /\ ~successors(g, call.v).some
  /\ ~neighbors(g, call.v).some
  /\ ~inEdges(g, call.v, None).some
  /\ ~outEdges(g, call.v, None).some
  /\ ~nodeEdges(g, call.v, None).some
  /\ \E k \in Keys :
       /\ hasNode(g, k)
       /\ predecessors(g, k).some
       /\ successors(g, k).some
       /\ neighbors(g, k).some
       /\ inEdges(g, k, None).some
       /\ outEdges(g, k, None).some
       /\ nodeEdges(g, k, None).some

\* C16: for present nodes a and b, nodeEdges(a, b) and nodeEdges(b, a)
\* return the same set of edges, namely the present edges among (a, b) and
\* (b, a).
C16_NodeEdgesSymmetric ==
  \A a \in Keys, b \in Keys :
    (hasNode(g, a) /\ hasNode(g, b)) =>
      LET present == { p \in { <<a, b>>, <<b, a>> } : hasEdge(g, p[1], p[2]) }
          between == { [v |-> p[1], w |-> p[2]] : p \in present }
      IN /\ Range(nodeEdges(g, a, Some(b)).val) = between
         /\ Range(nodeEdges(g, b, Some(a)).val) = between

\* C17: removeEdge(v, w) while hasEdge(v, w) is false and removeNode(k)
\* while hasNode(k) is false leave the whole instance as it was, so that
\* the counts, nodes, edges, values and every adjacency query are unchanged;
\* and repeating a removeNode or removeEdge call changes nothing.
C17_RemoveAbsentIsNoOp ==
  /\ (call.op = "removeEdge" /\ ~hasEdge(pre, call.v, call.w)) => g = pre
  /\ (call.op = "removeNode" /\ ~hasNode(pre, call.v)) => g = pre
  /\ call.op = "removeEdge" => removeEdge(g, call.v, call.w) = g
  /\ call.op = "removeNode" => removeNode(g, call.v) = g

\* a removeEdge of an absent edge between two present nodes of a graph that
\* holds the opposite edge, which is still there afterwards
C17_Witness ==
  /\ call.op = "removeEdge"
  /\ call.v # call.w
  /\ hasNode(pre, call.v)
  /\ hasNode(pre, call.w)
  /\ ~hasEdge(pre, call.v, call.w)
  /\ hasEdge(pre, call.w, call.v)
  /\ hasEdge(g, call.w, call.v)
  /\ edgeCount(g) = edgeCount(pre)
  /\ edgeCount(g) >= 1

\* C18: edges are directed: for a different from b, setEdge(a, b) makes
\* hasEdge(a, b) true and leaves hasEdge(b, a) and edge(b, a) as they were,
\* which is false and undefined when (b, a) was not present.
C18_EdgesAreDirected ==
  (call.op = "setEdge" /\ call.v # call.w) =>
    /\ hasEdge(g, call.v, call.w)
    /\ hasEdge(g, call.w, call.v) = hasEdge(pre, call.w, call.v)
    /\ edge(g, call.w, call.v) = edge(pre, call.w, call.v)
    /\ ~hasEdge(pre, call.w, call.v) =>
         /\ ~hasEdge(g, call.w, call.v)
         /\ edge(g, call.w, call.v) = Undefined

\* a setEdge(a, b) with a value that created the edge while (b, a) was absent
C18_Witness ==
  /\ call.op = "setEdge"
  /\ call.v # call.w
  /\ call.value = "bar"
  /\ ~hasEdge(pre, call.v, call.w)
  /\ ~hasEdge(pre, call.w, call.v)
  /\ hasEdge(g, call.v, call.w)
  /\ edge(g, call.v, call.w) = "bar"
  /\ ~hasEdge(g, call.w, call.v)
  /\ edge(g, call.w, call.v) = Undefined

\* the number of places of list s that hold x
Occurrences(s, x) == Cardinality({ i \in 1..Len(s) : s[i] = x })

\* C19: self-loops are permitted: setEdge(a, a) leaves hasEdge(a, a) true,
\* adds one to edgeCount() when the loop is new and nothing when it was
\* there, and afterwards a is in predecessors(a) and in successors(a) and
\* occurs exactly once in neighbors(a).
C19_SelfLoop ==
  (call.op = "setEdge" /\ call.v = call.w) =>
    /\ hasEdge(g, call.v, call.v)
    /\ edgeCount(g) = edgeCount(pre) + (IF hasEdge(pre, call.v, call.v) THEN 0 ELSE 1)
    /\ Occurrences(edges(g), [v |-> call.v, w |-> call.v]) = 1
    /\ predecessors(g, call.v).some
    /\ call.v \in Range(predecessors(g, call.v).val)
    /\ successors(g, call.v).some
    /\ call.v \in Range(successors(g, call.v).val)
    /\ neighbors(g, call.v).some
    /\ Occurrences(neighbors(g, call.v).val, call.v) = 1

\* a setEdge(a, a) that created the loop on a node that already had an edge
\* to and from another node
C19_Witness ==
  /\ call.op = "setEdge"
  /\ call.v = call.w
  /\ ~hasEdge(pre, call.v, call.v)
  /\ hasEdge(g, call.v, call.v)
  /\ edgeCount(g) = edgeCount(pre) + 1
  /\ \E k \in Keys \ {call.v} : hasEdge(pre, k, call.v) /\ hasEdge(pre, call.v, k)
  /\ Len(neighbors(g, call.v).val) = 2

\* C20: for every present node k, neighbors(k) is the union without
\* duplicates of predecessors(k) and successors(k): it holds a key n exactly
\* when hasEdge(n, k) or hasEdge(k, n), and no key twice.
C20_NeighborsIsUnion ==
  \A k \in Keys :
    hasNode(g, k) =>
      /\ neighbors(g, k).some
      /\ Range(neighbors(g, k).val) =
           Range(predecessors(g, k).val) \union Range(successors(g, k).val)
      /\ \A n \in Keys :
           n \in Range(neighbors(g, k).val) <=> (hasEdge(g, n, k) \/ hasEdge(g, k, n))
      /\ Range(neighbors(g, k).val) \subseteq Keys
      /\ Len(neighbors(g, k).val) = Cardinality(Range(neighbors(g, k).val))

\* a node that is predecessor and successor of another node and of itself,
\* with two neighbors listed, each once
C20_Witness ==
  \E k \in Keys : \E n \in Keys \ {k} :
    /\ hasEdge(g, k, n)
    /\ hasEdge(g, n, k)
    /\ hasEdge(g, k, k)
    /\ ~hasEdge(g, n, n)
    /\ Len(predecessors(g, k).val) = 2
    /\ Len(successors(g, k).val) = 2
    /\ Len(neighbors(g, k).val) = 2
    /\ Len(neighbors(g, n).val) = 1

\* C21: isLeaf(k) is true exactly when k is a present node with no outgoing
\* edge; it is false for a key that is not in the graph.
C21_IsLeafExact ==
  \A k \in Keys :
    /\ isLeaf(g, k) <=> (hasNode(g, k) /\ \A w \in Keys : ~hasEdge(g, k, w))
    /\ ~hasNode(g, k) => ~isLeaf(g, k)

\* removeEdge has taken the last outgoing edge from a node that still has an
\* incoming edge, which made it a leaf
C21_Witness ==
  /\ call.op = "removeEdge"
  /\ hasEdge(pre, call.v, call.w)
  /\ ~isLeaf(pre, call.v)
  /\ isLeaf(g, call.v)
  /\ \E u \in Keys : hasEdge(g, u, call.v)

\* C22: edges() returns exactly the present edges, each once, in insertion
\* order: a setEdge on a present edge leaves the list as it is, a setEdge on
\* an absent edge (never set, or removed before) puts it last, and
\* removeEdge and removeNode take their edges out and keep the others in
\* their order.
C22_EdgesInInsertionOrder ==
  /\ ListsExactly(edges(g),
                  { [v |-> p[1], w |-> p[2]] :
                      p \in { q \in Keys \X Keys : hasEdge(g, q[1], q[2]) } })
  /\ call.op = "setNode" => edges(g) = edges(pre)
  /\ call.op = "setEdge" =>
       edges(g) = IF hasEdge(pre, call.v, call.w)
                    THEN edges(pre)
                    ELSE Append(edges(pre), [v |-> call.v, w |-> call.w])
  /\ call.op = "removeEdge" =>
       edges(g) = SelectSeq(edges(pre),
                            LAMBDA ed : ed # [v |-> call.v, w |-> call.w])
  /\ call.op = "removeNode" =>
       edges(g) = IF hasNode(pre, call.v)
                    THEN SelectSeq(edges(pre),
                                   LAMBDA ed : ed.v # call.v /\ ed.w # call.v)
                    ELSE edges(pre)

\* an edge that had been removed (its record is still in _out of its source,
\* where removeEdge leaves it) is set again while two other edges are
\* present, and is now the last of three
C22_Witness ==
  /\ call.op = "setEdge"
  /\ ~hasEdge(pre, call.v, call.w)
  /\ hasNode(pre, call.v)
  /\ [v |-> call.v, w |-> call.w] \in Range(MapValues(MapAt(pre._out, call.v)))
  /\ Len(edges(pre)) = 2
  /\ Len(edges(g)) = 3
  /\ edges(g)[3] = [v |-> call.v, w |-> call.w]
  /\ edges(g)[1] = edges(pre)[1]
  /\ edges(g)[2] = edges(pre)[2]

\* C24: for every present node k, isLeaf(k) is true exactly when k is in
\* sinks().
C24_LeafIffSink ==
  \A k \in Keys :
    hasNode(g, k) => (isLeaf(g, k) <=> k \in Range(sinks(g)))

\* the orders in which the elements of S can be listed
Orders(S) ==
  { s \in [1..Cardinality(S) -> S] : Range(s) = S }

RECURSIVE RemoveEdgesInOrder(_, _)
\* removeEdge called for each pair of the list, first to last
RemoveEdgesInOrder(G, pairs) ==
  IF pairs = << >> THEN G
  ELSE RemoveEdgesInOrder(removeEdge(G, pairs[1][1], pairs[1][2]), Tail(pairs))

\* C25: for any present node v, removing every edge incident to v with
\* removeEdge, in any order, and then calling removeNode(v) gives the same
\* instance (nodes, values, edges and their order, counts, adjacency) as
\* calling removeNode(v) at once.
C25_RemovalOrderIndependent ==
  \A v \in Keys :
    hasNode(g, v) =>
      \A order \in Orders(IncidentPairs(g, v)) :
        removeNode(RemoveEdgesInOrder(g, order), v) = removeNode(g, v)

\* a node with a self-loop, an incoming and an outgoing edge, whose removal
\* leaves the other node with its own loop, by either way
C25_Witness ==
  \E v \in Keys : \E u \in Keys \ {v} :
    /\ Cardinality(IncidentPairs(g, v)) = 3
    /\ hasEdge(g, u, u)
    /\ Cardinality(Orders(IncidentPairs(g, v))) = 6
    /\ \A order \in Orders(IncidentPairs(g, v)) :
         /\ edgeCount(RemoveEdgesInOrder(g, order)) = edgeCount(g) - 3
         /\ removeNode(RemoveEdgesInOrder(g, order), v) = removeNode(g, v)
    /\ edges(removeNode(g, v)) = << [v |-> u, w |-> u] >>
    /\ nodes(removeNode(g, v)) = << u >>

\* C27: for a present node k, nodeEdges(k) lists the in-edges first and then
\* the out-edges, and holds each present edge incident to k exactly once,
\* also when k has a self-loop.
C27_NodeEdgesEachOnce ==
  \A k \in Keys :
    hasNode(g, k) =>
      /\ nodeEdges(g, k, None).val =
           inEdges(g, k, None).val \o outEdges(g, k, None).val
      /\ ListsExactly(nodeEdges(g, k, None).val,
                      { [v |-> p[1], w |-> p[2]] : p \in IncidentPairs(g, k) })

\* C29: every entry of the predecessor and successor count maps has count
\* exactly 1, also after setEdge is repeated on the same pair, so that the
\* decrement in removeEdge brings the count to zero and removes the entry.
\* (Keys without the delimiter; keys with it are the subject of C28.)
C29_CountsAreOne ==
  /\ \A field \in {g._predecessors, g._successors} :
       \A i \in 1..Len(field) :
         \A j \in 1..Len(field[i].v) : field[i].v[j].v = 1
  /\ (call.op = "removeEdge" /\ hasEdge(pre, call.v, call.w)) =>
       /\ ~MapHas(MapAt(g._successors, call.v), call.w)
       /\ ~MapHas(MapAt(g._predecessors, call.w), call.v)
       /\ decrementOrRemoveEntry(MapAt(pre._successors, call.v), call.w)
            = MapDelete(MapAt(pre._successors, call.v), call.w)

\* setEdge was repeated on a present pair and the count of the pair is
\* still 1 on both sides
C29_Witness ==
  /\ call.op = "setEdge"
  /\ hasEdge(pre, call.v, call.w)
  /\ call.v # call.w
  /\ MapAt(MapAt(pre._successors, call.v), call.w) = 1
  /\ MapAt(MapAt(g._successors, call.v), call.w) = 1
  /\ MapAt(MapAt(g._predecessors, call.w), call.v) = 1
  /\ Len(MapAt(g._predecessors, call.w)) = 2

---------------------------------------------------------------------------
(* Claims about the statements of removeNode, checked under SpecSteps *)

\* C26: inside a removeNode(v) call every edge incident to v has left the
\* edge table before v leaves the node table: at no step does the edge table
\* hold an edge with an endpoint that the node table lacks.
C26_EdgesLeaveBeforeNode ==
  \A ed \in Range(edges(g)) : hasNode(g, ed.v) /\ hasNode(g, ed.w)

\* the statements of removeNode, run to the end, give what removeNode gives
StepsAgreeWithRemoveNode ==
  (call.op = "removeNode" /\ call.pc = "done") => g = removeNode(pre, call.v)

---------------------------------------------------------------------------
(* Claims about keys that contain the delimiter, checked under SpecDelim *)

\* C28: distinct ordered pairs never share an edge identity, also for keys
\* that contain the delimiter: for (v2, w2) different from (v, w),
\* setEdge(v, w) leaves hasEdge(v2, w2) and edge(v2, w2) as they were and
\* removeEdge(v, w) does not remove edge (v2, w2).
C28_PairsDoNotShareIdentity ==
  \A v2 \in DelimKeys, w2 \in DelimKeys :
    (call.op \in {"setEdge", "removeEdge"} /\ <<v2, w2>> # <<call.v, call.w>>) =>
      /\ call.op = "setEdge" =>
           /\ hasEdge(g, v2, w2) = hasEdge(pre, v2, w2)
           /\ edge(g, v2, w2) = edge(pre, v2, w2)
      /\ call.op = "removeEdge" =>
           (hasEdge(pre, v2, w2) => hasEdge(g, v2, w2))

---------------------------------------------------------------------------
(* Claims about the generic Graph, checked under SpecGeneric *)

\* C6: in the generic Graph, sources() returns exactly the present nodes
\* without an incoming edge.
C6_GenericSourcesExact ==
  ListsExactly(MapKeys(T_sources(g)),
               { k \in Keys : hasNode(g, k) /\ \A u \in Keys : ~hasEdge(g, u, k) })

\* C11: in the generic Graph, setEdge(v, w) for an edge that is not present,
\* called while v or w is not a present node, throws and leaves every table
\* and both counters as they were.
C11_StrictSetEdgeIsAtomic ==
  ( /\ call.op = "setEdge"
    /\ ~hasEdge(pre, call.v, call.w)
    /\ (~hasNode(pre, call.v) \/ ~hasNode(pre, call.w)) )
  => /\ call.threw
     /\ g._nodes = pre._nodes
     /\ g._edges = pre._edges
     /\ g._edgeLabels = pre._edgeLabels
     /\ g._predecessors = pre._predecessors
     /\ g._successors = pre._successors
     /\ g._in = pre._in
     /\ g._out = pre._out
     /\ g._nodeCount = pre._nodeCount
     /\ g._edgeCount = pre._edgeCount

\* a setEdge that threw for a missing target while the source was present
\* and the graph already held an edge
C11_Witness ==
  /\ call.op = "setEdge"
  /\ call.threw
  /\ hasNode(pre, call.v)
  /\ ~hasNode(pre, call.w)
  /\ edgeCount(pre) >= 1
  /\ g = pre

\* C23: in the generic Graph, node(k) returns undefined only when
\* hasNode(k) is false, so that a node made by setNode(k) without a value can
\* be told from an unknown key through node(k).
C23_GenericNodeAbsentOnlyIfNoNode ==
  \A k \in Keys : T_node(g, k) = Undefined => ~hasNode(g, k)

====
